---- MODULE Spec2Model ----
(***************************************************************************)
(* Risk analytics engine of nickncn/johnathan: the valuation engine and    *)
(* the return-series builder (backend/app/services/pnl.py), the VaR engine *)
(* (backend/app/services/var.py) and the exposure and concentration        *)
(* analyzer (backend/app/services/exposure.py).                            *)
(*                                                                         *)
(* Money is Decimal in the source: exact arithmetic, modelled by integers. *)
(* The specifications share the variables:                                 *)
(*   Spec          the store (positions, prices) and the valuation         *)
(*                 operations;                                             *)
(*   SpecVar       the VaR estimators and the GET /risk/var handler over a *)
(*                 return series and a portfolio value supplied by the     *)
(*                 P&L service, the way tests/test_var.py patches          *)
(*                 calculate_returns_series and calculate_portfolio_pnl;   *)
(*   SpecScale     two VaR estimates with a change of the portfolio value  *)
(*                 between them;                                           *)
(*   SpecSeries    the return-series builder over the daily valuation      *)
(*                 records;                                                *)
(*   SpecExposure  the exposure breakdowns and the concentration analysis  *)
(*                 over a portfolio;                                       *)
(*   SpecChange    the risk snapshots and the VaR change report;           *)
(*   SpecDaily     the daily valuation write, one call at a time;          *)
(*   SpecRace      the daily valuation write in two interleaved sessions;  *)
(*   SpecAccounts  the reads of one account among writes of any account.   *)
(***************************************************************************)
EXTENDS Integers, Sequences, FiniteSets, TLC

VARIABLES positions, prices, pnl_timeseries, risk_metrics, inflight, returns, portfolio_value, call, result

vars == <<positions, prices, pnl_timeseries, risk_metrics, inflight, returns, portfolio_value, call, result>>

(***************************************************************************)
(* Bounds and input sets.                                                  *)
(***************************************************************************)
MaxPositions == 2
MaxPrices == 2

Accounts == {"A", "B"}
Instruments == {1, 2}
Quantities == {-100, 100}
Costs == {150}
StoredPrices == {0, 155}
Timestamps == {1, 2}

\* The return series handed to the estimators: at most MaxTail older returns
\* followed by a run of equal, more recent returns whose length is 0 or just
\* below the minimum number of observations. Returns are in units of 1e-2.
MaxTail == 2
ReturnVals == {-2, 1, 3}
BulkLens == {0, 29}
PortfolioValues == {-1000, 0, 1000}

\* alpha in per cent (95 is alpha = 0.95; 150 is an alpha outside (0,1)).
AlphaVals == {95, 99, 150}
Lookbacks == {0, 250}
Methods == {"historical", "parametric", "ewma", "bogus"}

(***************************************************************************)
(* Optional[Decimal]: None, or a Decimal value.                            *)
(***************************************************************************)
NoPrice == [some |-> FALSE, v |-> 0]

Some(v) == [some |-> TRUE, v |-> v]

PriceArgs == {NoPrice, Some(0), Some(160)}

\* Python truthiness of an Optional[Decimal]: None and Decimal('0') are falsy.
Truthy(p) == p.some /\ p.v # 0

Abs(x) == IF x < 0 THEN -x ELSE x

RECURSIVE SetSum(_, _)
SetSum(S, f) ==
    IF S = {} THEN 0
    ELSE LET x == CHOOSE y \in S : TRUE IN f[x] + SetSum(S \ {x}, f)

NoCall == [name |-> "none"]

NoResult == [kind |-> "none"]

(***************************************************************************)
(* The store.                                                              *)
(***************************************************************************)
\* Faulty variant: the query on Position has no filter on the account.
PositionsOfAnyAccount(account_id) == positions

PositionsOf(account_id) == {p \in positions : p.account_id = account_id}

PriceRows(instrument_id) ==
    {i \in 1..Len(prices) : prices[i].instrument_id = instrument_id}

\* select(Price.price).where(instrument_id == ...).order_by(timestamp.desc()).limit(1)
\* followed by scalar_one_or_none(): the set of outcomes the database may give
\* (rows of equal greatest timestamp come back in an unspecified order).
LatestPrice(instrument_id) ==
    LET rows == PriceRows(instrument_id)
        top == {i \in rows : \A j \in rows : prices[j].timestamp <= prices[i].timestamp}
    IN IF rows = {} THEN {NoPrice} ELSE {Some(prices[i].price) : i \in top}

\* The outcomes of one latest-price query per position of an account.
PriceQueries(account_id) ==
    {q \in [PositionsOf(account_id) -> {NoPrice} \cup {Some(v) : v \in StoredPrices}] :
        \A p \in PositionsOf(account_id) : q[p] \in LatestPrice(p.instrument_id)}

(***************************************************************************)
(* Valuation engine.                                                       *)
(***************************************************************************)
\* Faulty variant: the realized figure repeats the unrealized one.
calculate_position_pnl_realized(position, current_price, price_row) ==
    LET price == IF ~Truthy(current_price)
                 THEN (IF Truthy(price_row) THEN price_row.v ELSE position.average_cost)
                 ELSE current_price.v
    IN [unrealized_pnl |-> (price - position.average_cost) * position.quantity,
        realized_pnl |-> (price - position.average_cost) * position.quantity]

\* PnlService.calculate_position_pnl; price_row is what its query returns.
calculate_position_pnl(position, current_price, price_row) ==
    LET price == IF ~Truthy(current_price)
                 THEN (IF Truthy(price_row) THEN price_row.v ELSE position.average_cost)
                 ELSE current_price.v
    IN [unrealized_pnl |-> (price - position.average_cost) * position.quantity,
        realized_pnl |-> 0]

\* Faulty variant: an unpriced position is valued at cost, as the concentration
\* analysis does.
MarketValueStepCostFallback(position, current_price) ==
    IF Truthy(current_price) THEN current_price.v * position.quantity
    ELSE position.average_cost * position.quantity

\* The market-value step of the loop of calculate_portfolio_pnl.
MarketValueStep(position, current_price) ==
    IF Truthy(current_price) THEN current_price.v * position.quantity ELSE 0

\* PnlService.calculate_portfolio_pnl; q1 are the outcomes of the queries made
\* inside calculate_position_pnl, q2 those of the market-value queries.
calculate_portfolio_pnl(account_id, q1, q2) ==
    LET P == PositionsOf(account_id)
        pnl == [p \in P |-> calculate_position_pnl(p, NoPrice, q1[p])]
        total_unrealized == SetSum(P, [p \in P |-> pnl[p].unrealized_pnl])
        total_realized == SetSum(P, [p \in P |-> pnl[p].realized_pnl])
        total_market_value == SetSum(P, [p \in P |-> MarketValueStep(p, q2[p])])
    IN [unrealized_pnl |-> total_unrealized,
        realized_pnl |-> total_realized,
        total_pnl |-> total_unrealized + total_realized,
        portfolio_value |-> total_market_value]

(***************************************************************************)
(* Actions of Spec.                                                        *)
(***************************************************************************)
\* A Position row is written (unique per account and instrument).
AddPosition ==
    \E a \in Accounts, i \in Instruments, q \in Quantities, c \in Costs :
        /\ Cardinality(positions) < MaxPositions
        /\ \A p \in positions : ~(p.account_id = a /\ p.instrument_id = i)
        /\ positions' = positions \cup
               {[account_id |-> a, instrument_id |-> i, quantity |-> q, average_cost |-> c]}
        /\ call' = NoCall
        /\ result' = NoResult
        /\ UNCHANGED <<prices, pnl_timeseries, risk_metrics, inflight, returns, portfolio_value>>

\* A Price row is appended; timestamps need not arrive in order.
AppendPrice ==
    \E i \in Instruments, t \in Timestamps, v \in StoredPrices :
        /\ Len(prices) < MaxPrices
        /\ prices' = Append(prices, [instrument_id |-> i, timestamp |-> t, price |-> v])
        /\ call' = NoCall
        /\ result' = NoResult
        /\ UNCHANGED <<positions, pnl_timeseries, risk_metrics, inflight, returns, portfolio_value>>

ValuePosition ==
    \E p \in positions, cp \in PriceArgs :
        \E row \in LatestPrice(p.instrument_id) :
            /\ call' = [name |-> "calculate_position_pnl", position |-> p, current_price |-> cp]
            /\ result' = [kind |-> "ok", out |-> calculate_position_pnl(p, cp, row)]
            /\ UNCHANGED <<positions, prices, pnl_timeseries, risk_metrics, inflight, returns, portfolio_value>>

ValuePortfolio ==
    \E a \in Accounts :
        \E q1 \in PriceQueries(a), q2 \in PriceQueries(a) :
            /\ call' = [name |-> "calculate_portfolio_pnl", account_id |-> a]
            /\ result' = [kind |-> "ok", out |-> calculate_portfolio_pnl(a, q1, q2)]
            /\ UNCHANGED <<positions, prices, pnl_timeseries, risk_metrics, inflight, returns, portfolio_value>>

Init ==
    /\ positions = {}
    /\ prices = << >>
    /\ pnl_timeseries = << >>
    /\ risk_metrics = << >>
    /\ inflight = << >>
    /\ returns = << >>
    /\ portfolio_value = 0
    /\ call = NoCall
    /\ result = NoResult

Next ==
    \/ AddPosition
    \/ AppendPrice
    \/ ValuePosition
    \/ ValuePortfolio

Spec == Init /\ [][Next]_vars

(***************************************************************************)
(* Floats. A float is an exact number in fixed point, or NaN. Percentages  *)
(* derived from returns (var_percent, mean_return, volatility) carry       *)
(* PctScale more digits than the returns; z-scores are in units of 1/ZScale.*)
(***************************************************************************)
PctScale == 100
ZScale == 1000
WeightScale == 8000

Fin(v) == [nan |-> FALSE, v |-> v]

NaN == [nan |-> TRUE, v |-> 0]

FMul(a, b) == IF a.nan \/ b.nan THEN NaN ELSE Fin(a.v * b.v)

FSub(a, b) == IF a.nan \/ b.nan THEN NaN ELSE Fin(a.v - b.v)

FDiv(a, d) == IF a.nan THEN NaN ELSE Fin(a.v \div d)

FAbs(a) == IF a.nan THEN NaN ELSE Fin(Abs(a.v))

RECURSIVE SeqSum(_)
SeqSum(s) == IF s = << >> THEN 0 ELSE Head(s) + SeqSum(Tail(s))

RECURSIVE ISqrtIn(_, _, _)
ISqrtIn(x, lo, hi) ==
    IF lo >= hi THEN lo
    ELSE LET mid == (lo + hi + 1) \div 2
         IN IF mid * mid <= x THEN ISqrtIn(x, mid, hi) ELSE ISqrtIn(x, lo, mid - 1)

\* np.sqrt, rounded down to the fixed-point grid.
ISqrt(x) == ISqrtIn(x, 0, x)

(***************************************************************************)
(* The return series of SpecVar.                                           *)
(***************************************************************************)
Bulk(v, k) == [i \in 1..k |-> v]

ReturnSamples ==
    {tail \o Bulk(v, k) :
        tail \in UNION {[1..t -> ReturnVals] : t \in 0..MaxTail},
        v \in ReturnVals, k \in BulkLens}

(***************************************************************************)
(* VaR engine.                                                             *)
(***************************************************************************)
MinObservations == 30
DefaultAlpha == 99
DefaultLookback == 250
LambdaDecay == 94

\* Faulty variant: the floor is inclusive.
InsufficientDataInclusive(n) == n <= MinObservations

\* `if len(returns) < 30`
InsufficientData(n) == n < MinObservations

\* The virtual index of np.percentile's default (linear) method, in 1/100.
VirtualIndex(n, q) == q * (n - 1)

\* Faulty variant: method='lower', no interpolation between the two neighbours.
PercentileLower(a, q) ==
    LET s == SortSeq(a, <)
    IN PctScale * s[(VirtualIndex(Len(s), q) \div 100) + 1]

\* np.percentile(a, q) for 0 <= q <= 100, times PctScale.
Percentile(a, q) ==
    LET s == SortSeq(a, <)
        h == VirtualIndex(Len(s), q)
        lo == h \div 100
        g == h % 100
    IN IF g = 0 THEN PctScale * s[lo + 1]
       ELSE PctScale * s[lo + 1] + g * (s[lo + 2] - s[lo + 1])

\* scipy.stats.norm.ppf(p), p in per cent, times ZScale; NaN outside [0,1].
NormPpf(p) ==
    IF p = 1 THEN Fin(-2326)
    ELSE IF p = 5 THEN Fin(-1645)
    ELSE IF p = 10 THEN Fin(-1282)
    ELSE IF p = 50 THEN Fin(0)
    ELSE NaN

\* Faulty variant: the dollar figure does not follow the portfolio value.
HistoricalDollarUnscaled(var_value, pv) == Abs(var_value)

\* abs(var_value * portfolio_value)
HistoricalDollar(var_value, pv) == Abs(var_value * pv)

Raise(error, calls) == [kind |-> "raise", error |-> error, calls |-> calls]

Return(out, calls) == [kind |-> "ok", out |-> out, calls |-> calls]

\* VarService.calculate_historical_var
calculate_historical_var(alpha, lookback_days) ==
    LET n == Len(returns)
        var_percentile == 100 - alpha
    IN IF InsufficientData(n)
       THEN Return([var_value |-> Fin(0),
                    confidence_level |-> alpha,
                    lookback_days |-> lookback_days,
                    method |-> "historical_simulation",
                    data_points |-> n],
                   <<"calculate_returns_series">>)
       ELSE IF var_percentile < 0 \/ var_percentile > 100
       THEN Raise("ValueError", <<"calculate_returns_series">>)
       ELSE LET var_value == Percentile(returns, var_percentile)
            IN Return([var_value |-> Fin(HistoricalDollar(var_value, portfolio_value)),
                       var_percent |-> Fin(var_value),
                       confidence_level |-> alpha,
                       lookback_days |-> lookback_days,
                       method |-> "historical_simulation",
                       data_points |-> n,
                       portfolio_value |-> portfolio_value],
                      <<"calculate_returns_series", "calculate_portfolio_pnl">>)

\* np.mean, times PctScale.
Mean(a) == (PctScale * SeqSum(a)) \div Len(a)

\* np.std(a, ddof=1), times PctScale.
SampleStd(a) ==
    LET m == Mean(a)
        sq == [i \in 1..Len(a) |-> (PctScale * a[i] - m) * (PctScale * a[i] - m)]
    IN ISqrt(SeqSum(sq) \div (Len(a) - 1))

\* abs(z_alpha * volatility - mean)
ZVarPercent(z_alpha, volatility, mean) ==
    FAbs(FSub(FDiv(FMul(z_alpha, Fin(volatility)), ZScale), Fin(mean)))

\* VarService.calculate_parametric_var
calculate_parametric_var(alpha, lookback_days) ==
    LET n == Len(returns)
    IN IF InsufficientData(n)
       THEN Return([var_value |-> Fin(0),
                    confidence_level |-> alpha,
                    lookback_days |-> lookback_days,
                    method |-> "parametric",
                    data_points |-> n],
                   <<"calculate_returns_series">>)
       ELSE LET mean_return == Mean(returns)
                volatility == SampleStd(returns)
                z_alpha == NormPpf(100 - alpha)
                var_percent == ZVarPercent(z_alpha, volatility, mean_return)
            IN Return([var_value |-> FMul(var_percent, Fin(portfolio_value)),
                       var_percent |-> var_percent,
                       confidence_level |-> alpha,
                       lookback_days |-> lookback_days,
                       method |-> "parametric",
                       volatility |-> volatility,
                       mean_return |-> mean_return,
                       z_score |-> z_alpha,
                       data_points |-> n,
                       portfolio_value |-> portfolio_value],
                      <<"calculate_returns_series", "calculate_portfolio_pnl">>)

\* [(1 - lambda_decay) * (lambda_decay ** i) for i in range(n)], in units of
\* 1/WeightScale, rounded down; w is the weight of i = 0.
RECURSIVE DecayWeights(_, _)
DecayWeights(n, w) ==
    IF n = 0 THEN << >>
    ELSE <<w>> \o DecayWeights(n - 1, (w * LambdaDecay) \div 100)

Reverse(s) == [i \in 1..Len(s) |-> s[Len(s) + 1 - i]]

\* Faulty variant: the weights are not reversed, the oldest observation is the
\* heaviest.
EwmaWeightsOldestFirst(n) == DecayWeights(n, ((100 - LambdaDecay) * WeightScale) \div 100)

\* weights / np.sum(weights), then weights[::-1]: the numerators of the
\* normalised weights, oldest observation first; their denominator is the sum.
EwmaWeights(n) == Reverse(DecayWeights(n, ((100 - LambdaDecay) * WeightScale) \div 100))

\* np.average(a, weights=w), times PctScale.
WeightedMean(a, w) ==
    (PctScale * SeqSum([i \in 1..Len(a) |-> w[i] * a[i]])) \div SeqSum(w)

\* np.average((a - mean) ** 2, weights=w), times PctScale squared.
WeightedVariance(a, w, m) ==
    SeqSum([i \in 1..Len(a) |-> w[i] * (PctScale * a[i] - m) * (PctScale * a[i] - m)])
        \div SeqSum(w)

\* VarService.calculate_ewma_var (lambda_decay keeps its default)
calculate_ewma_var(alpha, lookback_days) ==
    LET n == Len(returns)
    IN IF InsufficientData(n)
       THEN Return([var_value |-> Fin(0),
                    confidence_level |-> alpha,
                    method |-> "ewma",
                    data_points |-> n],
                   <<"calculate_returns_series">>)
       ELSE LET weights == EwmaWeights(n)
                weighted_mean == WeightedMean(returns, weights)
                volatility == ISqrt(WeightedVariance(returns, weights, weighted_mean))
                z_alpha == NormPpf(100 - alpha)
                var_percent == ZVarPercent(z_alpha, volatility, weighted_mean)
            IN Return([var_value |-> FMul(var_percent, Fin(portfolio_value)),
                       var_percent |-> var_percent,
                       confidence_level |-> alpha,
                       lookback_days |-> lookback_days,
                       method |-> "ewma",
                       volatility |-> volatility,
                       lambda_decay |-> LambdaDecay,
                       weighted_mean |-> weighted_mean,
                       data_points |-> n,
                       portfolio_value |-> portfolio_value],
                      <<"calculate_returns_series", "calculate_portfolio_pnl">>)

\* The estimator's own call, ahead of the calls it makes.
Via(name, r) == [r EXCEPT !.calls = <<name>> \o @]

\* Faulty variant: the estimators are called without the caller's alpha and lookback.
calculate_var_defaults(method, alpha, lookback_days) ==
    IF method = "historical"
    THEN Via("calculate_historical_var",
             calculate_historical_var(DefaultAlpha, DefaultLookback))
    ELSE IF method = "parametric"
    THEN Via("calculate_parametric_var",
             calculate_parametric_var(DefaultAlpha, DefaultLookback))
    ELSE IF method = "ewma"
    THEN Via("calculate_ewma_var", calculate_ewma_var(DefaultAlpha, DefaultLookback))
    ELSE Raise("ValueError", << >>)

\* VarService.calculate_var
calculate_var(method, alpha, lookback_days) ==
    IF method = "historical"
    THEN Via("calculate_historical_var", calculate_historical_var(alpha, lookback_days))
    ELSE IF method = "parametric"
    THEN Via("calculate_parametric_var", calculate_parametric_var(alpha, lookback_days))
    ELSE IF method = "ewma"
    THEN Via("calculate_ewma_var", calculate_ewma_var(alpha, lookback_days))
    ELSE Raise("ValueError", << >>)

(***************************************************************************)
(* Actions of SpecVar.                                                     *)
(***************************************************************************)
VarCall(name, method, alpha, lookback_days) ==
    [name |-> name, method |-> method, alpha |-> alpha, lookback_days |-> lookback_days]

HistoricalVar ==
    \E alpha \in AlphaVals, lb \in Lookbacks :
        /\ call' = VarCall("calculate_historical_var", "historical", alpha, lb)
        /\ result' = calculate_historical_var(alpha, lb)
        /\ UNCHANGED <<positions, prices, pnl_timeseries, risk_metrics, inflight, returns, portfolio_value>>

ParametricVar ==
    \E alpha \in AlphaVals, lb \in Lookbacks :
        /\ call' = VarCall("calculate_parametric_var", "parametric", alpha, lb)
        /\ result' = calculate_parametric_var(alpha, lb)
        /\ UNCHANGED <<positions, prices, pnl_timeseries, risk_metrics, inflight, returns, portfolio_value>>

EwmaVar ==
    \E alpha \in AlphaVals, lb \in Lookbacks :
        /\ call' = VarCall("calculate_ewma_var", "ewma", alpha, lb)
        /\ result' = calculate_ewma_var(alpha, lb)
        /\ UNCHANGED <<positions, prices, pnl_timeseries, risk_metrics, inflight, returns, portfolio_value>>

CalculateVar ==
    \E method \in Methods, alpha \in AlphaVals, lb \in Lookbacks :
        /\ call' = VarCall("calculate_var", method, alpha, lb)
        /\ result' = calculate_var(method, alpha, lb)
        /\ UNCHANGED <<positions, prices, pnl_timeseries, risk_metrics, inflight, returns, portfolio_value>>

\* Two historical estimates of the same sample at two confidence levels, the
\* lookback left at its default (test_var_monotonicity_property).
HistoricalVarPair ==
    \E a1 \in AlphaVals, a2 \in AlphaVals :
        /\ a1 <= a2
        /\ call' = [name |-> "historical_var_pair", alpha_lo |-> a1, alpha_hi |-> a2]
        /\ result' = [kind |-> "pair",
                      lo |-> calculate_historical_var(a1, DefaultLookback),
                      hi |-> calculate_historical_var(a2, DefaultLookback)]
        /\ UNCHANGED <<positions, prices, pnl_timeseries, risk_metrics, inflight, returns, portfolio_value>>

\* GET /risk/var (routes_risk.calculate_var): the VarResponse, or the exception
\* that leaves the handler.
risk_var_route(method, alpha, lookback) ==
    LET m == IF method \notin {"historical", "parametric", "ewma"}
             THEN "historical" ELSE method
        var_result == calculate_var(m, alpha, lookback)
    IN IF var_result.kind = "raise" THEN var_result
       ELSE IF "lookback_days" \notin DOMAIN var_result.out
       THEN Raise("KeyError", var_result.calls)
       ELSE Return([var_value |-> var_result.out.var_value,
                    confidence_level |-> var_result.out.confidence_level,
                    lookback_days |-> var_result.out.lookback_days,
                    method |-> var_result.out.method,
                    portfolio_value |-> IF "portfolio_value" \in DOMAIN var_result.out
                                        THEN var_result.out.portfolio_value
                                        ELSE 0],
                   var_result.calls)

RiskVarRoute ==
    \E method \in Methods, alpha \in AlphaVals, lb \in Lookbacks :
        /\ call' = VarCall("risk_var_route", method, alpha, lb)
        /\ result' = risk_var_route(method, alpha, lb)
        /\ UNCHANGED <<positions, prices, pnl_timeseries, risk_metrics, inflight, returns, portfolio_value>>

InitVar ==
    /\ positions = {}
    /\ prices = << >>
    /\ pnl_timeseries = << >>
    /\ risk_metrics = << >>
    /\ inflight = << >>
    /\ returns \in ReturnSamples
    /\ portfolio_value \in PortfolioValues
    /\ call = NoCall
    /\ result = NoResult

NextVar ==
    \/ HistoricalVar
    \/ ParametricVar
    \/ EwmaVar
    \/ CalculateVar
    \/ HistoricalVarPair
    \/ RiskVarRoute

SpecVar == InitVar /\ [][NextVar]_vars

(***************************************************************************)
(* SpecScale: the portfolio value changes by a factor between two          *)
(* estimates of the same sample (tests/test_var.py,                        *)
(* test_var_scaling_property).                                             *)
(***************************************************************************)
Factors == {0, 2, 3}

\* Between two calls of calculate_var the portfolio value is multiplied by k.
ScalePortfolio ==
    \E k \in Factors :
        /\ call.name = "calculate_var"
        /\ portfolio_value \in PortfolioValues
        /\ portfolio_value' = k * portfolio_value
        /\ call' = [name |-> "scale_portfolio", factor |-> k, first |-> call]
        /\ result' = [kind |-> "scaling", before |-> result]
        /\ UNCHANGED <<positions, prices, pnl_timeseries, risk_metrics, inflight, returns>>

\* calculate_var is called again with the arguments of the first call.
RepeatVar ==
    /\ call.name = "scale_portfolio"
    /\ call' = [name |-> "var_scaling", method |-> call.first.method,
                alpha |-> call.first.alpha, factor |-> call.factor]
    /\ result' = [kind |-> "scaled",
                  before |-> result.before,
                  after |-> calculate_var(call.first.method, call.first.alpha,
                                          call.first.lookback_days)]
    /\ UNCHANGED <<positions, prices, pnl_timeseries, risk_metrics, inflight, returns, portfolio_value>>

NextScale ==
    \/ CalculateVar
    \/ ScalePortfolio
    \/ RepeatVar

SpecScale == InitVar /\ [][NextScale]_vars

(***************************************************************************)
(* Return-series builder (backend/app/services/pnl.py): the daily          *)
(* valuation records (pnl_timeseries, in insertion order) and the returns  *)
(* derived from them. Dates and the clock are whole days; returns are in   *)
(* units of 1e-2, as in the samples of the VaR engine.                     *)
(***************************************************************************)
MaxRecords == 3

Days == 1..3
SeriesValues == {-100, 0, 200}
SeriesLookbacks == {0, 1, 2}
\* datetime.utcnow() at the time of the call.
Nows == {2, 3}

\* The records of account "A" take every value; those of the other accounts
\* are there to be filtered out.
ValuationRecords ==
    [account_id : {"A"}, date : Days, portfolio_value : SeriesValues]
        \cup [account_id : Accounts \ {"A"}, date : Days, portfolio_value : {200}]

\* The tables the unique index on (account_id, date) admits.
RecordTables ==
    {t \in UNION {[1..n -> ValuationRecords] : n \in 0..MaxRecords} :
        \A i, j \in DOMAIN t :
            (t[i].account_id = t[j].account_id /\ t[i].date = t[j].date) => i = j}

\* Faulty variant: the rows are left in the order they were stored in.
StorageOrder(rows) == rows

\* Rows in ascending date order (ORDER BY date; DataFrame.sort_values('date')).
RECURSIVE SortByDate(_)
SortByDate(rows) ==
    IF rows = << >> THEN << >>
    ELSE LET first == CHOOSE i \in DOMAIN rows :
                          \A j \in DOMAIN rows :
                              \/ rows[i].date < rows[j].date
                              \/ rows[i].date = rows[j].date /\ i <= j
             rest == [k \in 1..(Len(rows) - 1) |->
                          IF k < first THEN rows[k] ELSE rows[k + 1]]
         IN <<rows[first]>> \o SortByDate(rest)

\* PnlService.get_pnl_timeseries
get_pnl_timeseries(account_id, start_date, end_date) ==
    LET selected == SelectSeq(pnl_timeseries,
                        LAMBDA r : /\ r.account_id = account_id
                                   /\ r.date >= start_date
                                   /\ r.date <= end_date)
        ordered == SortByDate(selected)
    IN [i \in DOMAIN ordered |->
            [date |-> ordered[i].date,
             portfolio_value |-> ordered[i].portfolio_value]]

\* A float of the returns column: finite, nan, inf or -inf.
Ret(kind, v) == [kind |-> kind, v |-> v]

\* a / b rounded down, for b # 0.
Quot(a, b) == IF b > 0 THEN a \div b ELSE (-a) \div (-b)

\* One entry of Series.pct_change(): cur / prev - 1 in float arithmetic.
Change(cur, prev) ==
    IF prev = 0
    THEN IF cur = 0 THEN Ret("nan", 0)
         ELSE IF cur > 0 THEN Ret("inf", 0)
         ELSE Ret("-inf", 0)
    ELSE Ret("fin", Quot((cur - prev) * PctScale, prev))

\* df['portfolio_value'].pct_change(): the first entry is nan.
PctChange(df) ==
    [i \in DOMAIN df |->
        IF i = 1 THEN Ret("nan", 0)
        ELSE Change(df[i].portfolio_value, df[i - 1].portfolio_value)]

\* Series.dropna()
DropNa(s) == SelectSeq(s, LAMBDA r : r.kind # "nan")

\* Faulty variant: the infinite entries are dropped with the nan ones.
DropInf(s) ==
    LET kept == SelectSeq(s, LAMBDA r : r.kind = "fin")
    IN [i \in DOMAIN kept |-> kept[i].v]

\* Series.replace([float('inf'), float('-inf')], 0).tolist()
ReplaceInf(s) == [i \in DOMAIN s |-> IF s[i].kind = "fin" THEN s[i].v ELSE 0]

\* Python's s[-n:] for 0 <= n <= len(s): s[-0:] is the whole list.
LastN(s, n) == IF n = 0 THEN s ELSE SubSeq(s, Len(s) - n + 1, Len(s))

\* PnlService.calculate_returns_series, called at time now.
calculate_returns_series(account_id, lookback_days, now) ==
    LET end_date == now
        start_date == end_date - (lookback_days + 1)
        pnl_data == get_pnl_timeseries(account_id, start_date, end_date)
    IN IF Len(pnl_data) < 2 THEN << >>
       ELSE LET df == SortByDate(pnl_data)
                rets == ReplaceInf(DropNa(PctChange(df)))
            IN IF Len(rets) > lookback_days
               THEN LastN(rets, lookback_days)
               ELSE rets

(***************************************************************************)
(* Actions of SpecSeries.                                                  *)
(***************************************************************************)
PnlTimeseries ==
    \E a \in Accounts, s \in Days, e \in Days :
        /\ s <= e
        /\ call' = [name |-> "get_pnl_timeseries", account_id |-> a,
                    start_date |-> s, end_date |-> e]
        /\ result' = [kind |-> "ok", out |-> get_pnl_timeseries(a, s, e)]
        /\ UNCHANGED <<positions, prices, pnl_timeseries, risk_metrics, inflight, returns, portfolio_value>>

ReturnsSeries ==
    \E a \in Accounts, lb \in SeriesLookbacks, now \in Nows :
        /\ call' = [name |-> "calculate_returns_series", account_id |-> a,
                    lookback_days |-> lb, now |-> now]
        /\ result' = [kind |-> "ok", out |-> calculate_returns_series(a, lb, now)]
        /\ UNCHANGED <<positions, prices, pnl_timeseries, risk_metrics, inflight, returns, portfolio_value>>

InitSeries ==
    /\ positions = {}
    /\ prices = << >>
    /\ pnl_timeseries \in RecordTables
    /\ risk_metrics = << >>
    /\ inflight = << >>
    /\ returns = << >>
    /\ portfolio_value = 0
    /\ call = NoCall
    /\ result = NoResult

NextSeries ==
    \/ PnlTimeseries
    \/ ReturnsSeries

SpecSeries == InitSeries /\ [][NextSeries]_vars

(***************************************************************************)
(* Exposure and concentration analyzer (backend/app/services/exposure.py). *)
(* Its floats are modelled by exact rationals in lowest terms.             *)
(***************************************************************************)
RECURSIVE GCD(_, _)
GCD(a, b) == IF b = 0 THEN a ELSE GCD(b, a % b)

\* n / d for d # 0, in lowest terms with a positive denominator.
Rat(n, d) ==
    LET g == GCD(Abs(n), Abs(d))
        sign == IF d < 0 THEN -1 ELSE 1
    IN [num |-> sign * (n \div g), den |-> sign * (d \div g)]

RatAdd(a, b) ==
    LET l == (a.den \div GCD(a.den, b.den)) * b.den
    IN Rat(a.num * (l \div a.den) + b.num * (l \div b.den), l)

RatMul(a, b) == Rat(a.num * b.num, a.den * b.den)

RatLeq(a, b) == a.num * b.den <= b.num * a.den

\* sum(...) of a list of floats.
RECURSIVE RatSum(_)
RatSum(s) == IF s = << >> THEN Rat(0, 1) ELSE RatAdd(Head(s), RatSum(Tail(s)))

\* Python's s[:n] for n >= 0.
FirstN(s, n) == SubSeq(s, 1, IF n < Len(s) THEN n ELSE Len(s))

\* The Instrument table: symbol, asset class and currency of an instrument.
Symbol(instrument_id) == instrument_id

AssetClass(instrument_id) == IF instrument_id % 2 = 1 THEN "equity" ELSE "crypto"

Currency(instrument_id) == IF instrument_id <= 2 THEN "EUR" ELSE "USD"

\* The column of the Instrument table a breakdown groups by.
Column(column, instrument_id) ==
    IF column = "asset_class" THEN AssetClass(instrument_id) ELSE Currency(instrument_id)

\* The portfolios of SpecExposure: account "A" holds at most MaxHead positions
\* of any quantity followed by a run of equal positions; another account
\* holds nothing or one position. Instrument 1 has at most one price.
MaxHead == 2
HeadQuantities == {-1, 0, 1, 3}
RunLens == {0, 3, 9}
Limits == {0, 2, 10}

Holding(account_id, instrument_id, quantity) ==
    [account_id |-> account_id, instrument_id |-> instrument_id,
     quantity |-> quantity, average_cost |-> CHOOSE c \in Costs : TRUE]

Portfolios ==
    {{Holding("A", i, head[i]) : i \in DOMAIN head}
         \cup {Holding("A", Len(head) + i, 1) : i \in 1..run}
         \cup other :
        head \in UNION {[1..n -> HeadQuantities] : n \in 0..MaxHead},
        run \in RunLens,
        other \in {{}, {Holding("B", 1, 1)}}}

PriceTables ==
    {<< >>} \cup {<<[instrument_id |-> 1, timestamp |-> 1, price |-> v]>> :
                      v \in StoredPrices}

\* The outcomes of one latest-price query per position of P.
RECURSIVE PriceOutcomes(_)
PriceOutcomes(P) ==
    IF P = {} THEN {[p \in {} |-> NoPrice]}
    ELSE LET p == CHOOSE x \in P : TRUE
         IN {[x \in P |-> IF x = p THEN v ELSE q[x]] :
                 v \in LatestPrice(p.instrument_id), q \in PriceOutcomes(P \ {p})}

\* The rows of a set of positions in ascending order of instrument.
RECURSIVE ByInstrument(_)
ByInstrument(P) ==
    IF P = {} THEN << >>
    ELSE LET p == CHOOSE x \in P : \A y \in P : x.instrument_id <= y.instrument_id
         IN <<p>> \o ByInstrument(P \ {p})

\* The rows of the query on Position joined with Instrument for an account.
\* The query has no ORDER BY: the rows come in either order of instrument.
PositionData(account_id) ==
    {ByInstrument(PositionsOf(account_id)), Reverse(ByInstrument(PositionsOf(account_id)))}

\* func.sum(Position.quantity * Position.average_cost) and func.count of the
\* positions of an account whose instrument has value g in the column.
GroupRow(account_id, column, g) ==
    LET P == {p \in PositionsOf(account_id) : Column(column, p.instrument_id) = g}
    IN [group |-> g,
        total_exposure |-> SetSum(P, [p \in P |-> p.quantity * p.average_cost]),
        num_positions |-> Cardinality(P)]

\* The rows of the GROUP BY query: one per value of the column with a position.
GroupRows(account_id, column) ==
    {GroupRow(account_id, column, Column(column, p.instrument_id)) :
        p \in PositionsOf(account_id)}

\* float(exp.total_exposure) / total_exposure * 100 if total_exposure > 0 else 0
ExposurePercent(exposure, total_exposure) ==
    IF total_exposure > 0 THEN Rat(exposure * 100, total_exposure) ELSE Rat(0, 1)

\* The list built by get_asset_class_exposure and get_currency_exposure, as
\* the set of its entries (the order of the groups is the database's).
ExposureBreakdown(account_id, column) ==
    LET exposures == GroupRows(account_id, column)
        total_exposure ==
            SetSum(exposures, [e \in exposures |-> e.total_exposure])
    IN {[group |-> e.group,
         exposure_value |-> e.total_exposure,
         exposure_percent |-> ExposurePercent(e.total_exposure, total_exposure),
         num_positions |-> e.num_positions] : e \in exposures}

\* ExposureService.get_asset_class_exposure
get_asset_class_exposure(account_id) == ExposureBreakdown(account_id, "asset_class")

\* ExposureService.get_currency_exposure
get_currency_exposure(account_id) == ExposureBreakdown(account_id, "currency")

\* The market value of one position in get_position_concentration.
ConcentrationMarketValue(position, current_price) ==
    IF Truthy(current_price) THEN current_price.v * position.quantity
    ELSE position.average_cost * position.quantity

\* market_value / total_portfolio_value * 100 if total_portfolio_value > 0 else 0
Weight(market_value, total_portfolio_value) ==
    IF total_portfolio_value > 0
    THEN Rat(market_value * 100, total_portfolio_value)
    ELSE Rat(0, 1)

\* list.sort(key=market_value, reverse=True): descending, equal keys keep
\* their order.
RECURSIVE SortByMarketValue(_)
SortByMarketValue(rows) ==
    IF rows = << >> THEN << >>
    ELSE LET first == CHOOSE i \in DOMAIN rows :
                          \A j \in DOMAIN rows :
                              \/ rows[i].market_value > rows[j].market_value
                              \/ rows[i].market_value = rows[j].market_value /\ i <= j
             rest == [k \in 1..(Len(rows) - 1) |->
                          IF k < first THEN rows[k] ELSE rows[k + 1]]
         IN <<rows[first]>> \o SortByMarketValue(rest)

\* Faulty variant: the index is taken over the five largest positions only.
HerfindahlTopFive(weights) ==
    LET top == FirstN(weights, 5)
    IN RatSum([i \in DOMAIN top |-> RatMul(top[i], top[i])])

\* sum(w ** 2 for w in weights)
Herfindahl(weights) == RatSum([i \in DOMAIN weights |-> RatMul(weights[i], weights[i])])

\* sum(weights[:n]) * 100 if len(weights) >= n else sum(weights) * 100
TopPct(weights, n) ==
    IF Len(weights) >= n
    THEN RatMul(RatSum(FirstN(weights, n)), Rat(100, 1))
    ELSE RatMul(RatSum(weights), Rat(100, 1))

\* ExposureService.get_position_concentration; position_data are the rows of
\* its first query and q the outcomes of its latest-price queries.
get_position_concentration(account_id, limit, position_data, q) ==
    IF position_data = << >>
    THEN [largest_positions |-> << >>,
          concentration_metrics |->
              [largest_position_pct |-> Rat(0, 1),
               top_5_positions_pct |-> Rat(0, 1),
               top_10_positions_pct |-> Rat(0, 1),
               herfindahl_index |-> Rat(0, 1)]]
    ELSE LET market_value ==
                 [i \in DOMAIN position_data |->
                     ConcentrationMarketValue(position_data[i], q[position_data[i]])]
             total_portfolio_value == SeqSum(market_value)
             positions_with_mv ==
                 SortByMarketValue(
                     [i \in DOMAIN position_data |->
                         [symbol |-> Symbol(position_data[i].instrument_id),
                          quantity |-> position_data[i].quantity,
                          market_value |-> market_value[i],
                          weight |-> Weight(market_value[i], total_portfolio_value)]])
             weights == [i \in DOMAIN positions_with_mv |->
                            RatMul(positions_with_mv[i].weight, Rat(1, 100))]
         IN [largest_positions |-> FirstN(positions_with_mv, limit),
             concentration_metrics |->
                 [largest_position_pct |-> RatMul(weights[1], Rat(100, 1)),
                  top_5_positions_pct |-> TopPct(weights, 5),
                  top_10_positions_pct |-> TopPct(weights, 10),
                  herfindahl_index |-> Herfindahl(weights),
                  total_positions |-> Len(positions_with_mv),
                  portfolio_value |-> total_portfolio_value]]

(***************************************************************************)
(* Actions of SpecExposure.                                                *)
(***************************************************************************)
AssetClassExposure ==
    \E a \in Accounts :
        /\ call' = [name |-> "get_asset_class_exposure", account_id |-> a]
        /\ result' = [kind |-> "ok", out |-> get_asset_class_exposure(a)]
        /\ UNCHANGED <<positions, prices, pnl_timeseries, risk_metrics, inflight, returns, portfolio_value>>

CurrencyExposure ==
    \E a \in Accounts :
        /\ call' = [name |-> "get_currency_exposure", account_id |-> a]
        /\ result' = [kind |-> "ok", out |-> get_currency_exposure(a)]
        /\ UNCHANGED <<positions, prices, pnl_timeseries, risk_metrics, inflight, returns, portfolio_value>>

PositionConcentration ==
    \E a \in Accounts, limit \in Limits :
        \E position_data \in PositionData(a), q \in PriceOutcomes(PositionsOf(a)) :
            /\ call' = [name |-> "get_position_concentration", account_id |-> a,
                        limit |-> limit, position_data |-> position_data,
                        prices |-> q]
            /\ result' = [kind |-> "ok",
                          out |-> get_position_concentration(a, limit, position_data, q)]
            /\ UNCHANGED <<positions, prices, pnl_timeseries, risk_metrics, inflight, returns, portfolio_value>>

InitExposure ==
    /\ positions \in Portfolios
    /\ prices \in PriceTables
    /\ pnl_timeseries = << >>
    /\ risk_metrics = << >>
    /\ inflight = << >>
    /\ returns = << >>
    /\ portfolio_value = 0
    /\ call = NoCall
    /\ result = NoResult

NextExposure ==
    \/ AssetClassExposure
    \/ CurrencyExposure
    \/ PositionConcentration

SpecExposure == InitExposure /\ [][NextExposure]_vars

(***************************************************************************)
(* SpecChange: the risk snapshots (risk_metrics, the RiskMetrics table in  *)
(* insertion order) and the VaR change report.                             *)
(***************************************************************************)
MaxSnapshots == 2

AsOfDates == {1, 2}
DaysBack == {1, 7}
ChangeSamples == {Bulk(v, k) : v \in ReturnVals, k \in {0, 30}}

\* The figures of get_var_change are in units of 1/ChangeScale of the unit of
\* var_value, so that the factors 0.9 and 0.1 are exact.
ChangeScale == 10

\* var_results.get(method, {}).get(key): None when either key is absent.
GetField(var_results, method, key) ==
    IF method \in DOMAIN var_results /\ key \in DOMAIN var_results[method]
    THEN [some |-> TRUE, v |-> var_results[method][key]]
    ELSE [some |-> FALSE, v |-> 0]

\* The row VarService.save_risk_metrics adds.
RiskMetricsRow(account_id, as_of_date, var_results) ==
    [account_id |-> account_id,
     as_of_date |-> as_of_date,
     var_historical |-> GetField(var_results, "historical", "var_value"),
     var_parametric |-> GetField(var_results, "parametric", "var_value"),
     var_alpha |-> IF GetField(var_results, "historical", "confidence_level").some
                   THEN var_results["historical"].confidence_level
                   ELSE DefaultAlpha,
     var_lookback_days |-> IF GetField(var_results, "historical", "lookback_days").some
                           THEN var_results["historical"].lookback_days
                           ELSE DefaultLookback,
     portfolio_volatility |-> GetField(var_results, "parametric", "volatility")]

\* VarService.get_var_change; current is what calculate_var returned.
get_var_change(current, days_back) ==
    IF current.kind = "raise" THEN current
    ELSE Return([current_var |-> FMul(current.out.var_value, Fin(ChangeScale)),
                 previous_var |-> FMul(current.out.var_value, Fin(9)),
                 change_absolute |-> FMul(current.out.var_value, Fin(1)),
                 change_percent |-> 10,
                 days_back |-> days_back],
                current.calls)

\* The scheduler saves the historical and parametric estimates of the day.
SaveRiskMetrics ==
    \E a \in Accounts, d \in AsOfDates :
        LET h == calculate_var("historical", DefaultAlpha, DefaultLookback)
            p == calculate_var("parametric", DefaultAlpha, DefaultLookback)
            var_results == [historical |-> h.out, parametric |-> p.out]
        IN /\ Len(risk_metrics) < MaxSnapshots
           /\ risk_metrics' = Append(risk_metrics, RiskMetricsRow(a, d, var_results))
           /\ call' = [name |-> "save_risk_metrics", account_id |-> a, as_of_date |-> d]
           /\ result' = [kind |-> "ok"]
           /\ UNCHANGED <<positions, prices, pnl_timeseries, inflight, returns,
                          portfolio_value>>

VarChange ==
    \E a \in Accounts, method \in Methods, days_back \in DaysBack, now \in Nows :
        /\ call' = [name |-> "get_var_change", account_id |-> a, method |-> method,
                    days_back |-> days_back, now |-> now]
        /\ result' = get_var_change(
                         calculate_var(method, DefaultAlpha, DefaultLookback), days_back)
        /\ UNCHANGED <<positions, prices, pnl_timeseries, risk_metrics, inflight,
                       returns, portfolio_value>>

InitChange ==
    /\ positions = {}
    /\ prices = << >>
    /\ pnl_timeseries = << >>
    /\ risk_metrics = << >>
    /\ inflight = << >>
    /\ returns \in ChangeSamples
    /\ portfolio_value \in PortfolioValues
    /\ call = NoCall
    /\ result = NoResult

NextChange ==
    \/ SaveRiskMetrics
    \/ VarChange

SpecChange == InitChange /\ [][NextChange]_vars

(***************************************************************************)
(* SpecDaily and SpecRace: the daily valuation write, update_daily_pnl.    *)
(* A row of pnl_timeseries here carries the datetime of its insertion as   *)
(* a calendar day (date) and a time of day (time), and the four figures.   *)
(* Under SpecDaily a call runs from its query to its commit in one step;   *)
(* under SpecRace two sessions run it in two steps each, the query and     *)
(* the commit, and inflight holds what a session has read and computed.    *)
(***************************************************************************)
DailyDays == {1, 2}
Times == {0, 1}
Sessions == {1, 2}

\* The calls the scheduler makes: account A on either day, account B on day 1.
DailyCalls == {<<"A", 1>>, <<"A", 2>>, <<"B", 1>>}
RaceCalls == {<<"A", 1>>}

DailyPositions ==
    {[account_id |-> "A", instrument_id |-> 1, quantity |-> 100, average_cost |-> 150],
     [account_id |-> "B", instrument_id |-> 1, quantity |-> -100, average_cost |-> 150]}

\* The rows of func.date(PnlTimeSeries.date) == date.date() for the account.
ExistingRecords(account_id, date) ==
    {i \in DOMAIN pnl_timeseries :
        /\ pnl_timeseries[i].account_id = account_id
        /\ pnl_timeseries[i].date = date}

\* What a call holds after its query: its arguments, the figures computed by
\* calculate_portfolio_pnl, and the row scalar_one_or_none returned (existing
\* is its index, 0 for None; loaded is the row as it was read).
Local(account_id, date, time, pnl_data) ==
    LET rows == ExistingRecords(account_id, date)
        existing == IF rows = {} THEN 0 ELSE CHOOSE i \in rows : TRUE
    IN [account_id |-> account_id, date |-> date, time |-> time,
        pnl_data |-> pnl_data,
        existing |-> existing,
        loaded |-> IF existing = 0 THEN pnl_data ELSE
                       [unrealized_pnl |-> pnl_timeseries[existing].unrealized_pnl,
                        realized_pnl |-> pnl_timeseries[existing].realized_pnl,
                        total_pnl |-> pnl_timeseries[existing].total_pnl,
                        portfolio_value |-> pnl_timeseries[existing].portfolio_value]]

\* Faulty variant: the record found is left as it is.
UpdatedRecordKept(row, local) == row

\* The UPDATE of the flush: the attributes whose assigned value differs from
\* the value loaded are written, the others are left as the store has them.
UpdatedRecord(row, local) ==
    [row EXCEPT
        !.unrealized_pnl = IF local.pnl_data.unrealized_pnl # local.loaded.unrealized_pnl
                           THEN local.pnl_data.unrealized_pnl ELSE @,
        !.realized_pnl = IF local.pnl_data.realized_pnl # local.loaded.realized_pnl
                         THEN local.pnl_data.realized_pnl ELSE @,
        !.total_pnl = IF local.pnl_data.total_pnl # local.loaded.total_pnl
                      THEN local.pnl_data.total_pnl ELSE @,
        !.portfolio_value = IF local.pnl_data.portfolio_value # local.loaded.portfolio_value
                            THEN local.pnl_data.portfolio_value ELSE @]

\* PnlTimeSeries(account_id=..., date=date, ...)
NewRecord(local) ==
    [account_id |-> local.account_id, date |-> local.date, time |-> local.time,
     unrealized_pnl |-> local.pnl_data.unrealized_pnl,
     realized_pnl |-> local.pnl_data.realized_pnl,
     total_pnl |-> local.pnl_data.total_pnl,
     portfolio_value |-> local.pnl_data.portfolio_value]

\* The unique index ix_pnl_account_date on (account_id, date), date a DateTime.
UniqueViolation(row) ==
    \E i \in DOMAIN pnl_timeseries :
        /\ pnl_timeseries[i].account_id = row.account_id
        /\ pnl_timeseries[i].date = row.date
        /\ pnl_timeseries[i].time = row.time

\* The branch on existing_record and the commit: the table afterwards, or the
\* IntegrityError of the unique index.
commit_daily_pnl(local) ==
    IF local.existing # 0
    THEN [kind |-> "ok",
          table |-> [pnl_timeseries EXCEPT
                        ![local.existing] = UpdatedRecord(@, local)]]
    ELSE IF UniqueViolation(NewRecord(local))
    THEN [kind |-> "raise", error |-> "IntegrityError", table |-> pnl_timeseries]
    ELSE [kind |-> "ok", table |-> Append(pnl_timeseries, NewRecord(local))]

DailyCall(local) ==
    [name |-> "update_daily_pnl", account_id |-> local.account_id,
     date |-> local.date, time |-> local.time, pnl_data |-> local.pnl_data]

\* A price of instrument 1 arrives, later than the ones stored.
PriceTick ==
    \E v \in StoredPrices :
        /\ Len(prices) < MaxPrices
        /\ prices' = Append(prices, [instrument_id |-> 1,
                                     timestamp |-> Len(prices) + 1, price |-> v])
        /\ call' = NoCall
        /\ result' = NoResult
        /\ UNCHANGED <<positions, pnl_timeseries, risk_metrics, inflight, returns, portfolio_value>>

\* PnlService.update_daily_pnl, from its first line to its commit: the call as
\* recorded, what it returns or raises, and the table afterwards.
update_daily_pnl(account_id, date, time, pnl_data) ==
    LET local == Local(account_id, date, time, pnl_data)
        done == commit_daily_pnl(local)
    IN IF Cardinality(ExistingRecords(account_id, date)) > 1
       THEN [call |-> DailyCall(local),
             result |-> [kind |-> "raise", error |-> "MultipleResultsFound"],
             table |-> pnl_timeseries]
       ELSE [call |-> DailyCall(local),
             result |-> [kind |-> done.kind],
             table |-> done.table]

UpdateDailyPnl ==
    \E c \in DailyCalls, time \in Times :
        \E q1 \in PriceQueries(c[1]), q2 \in PriceQueries(c[1]) :
            LET done == update_daily_pnl(c[1], c[2], time,
                                         calculate_portfolio_pnl(c[1], q1, q2))
            IN /\ call' = done.call
               /\ result' = done.result
               /\ pnl_timeseries' = done.table
               /\ UNCHANGED <<positions, prices, risk_metrics, inflight, returns, portfolio_value>>

\* A session runs update_daily_pnl up to the result of its existence query.
BeginUpdate ==
    \E s \in Sessions \ DOMAIN inflight, c \in RaceCalls, time \in Times :
        \E q1 \in PriceQueries(c[1]), q2 \in PriceQueries(c[1]) :
            LET local == Local(c[1], c[2], time, calculate_portfolio_pnl(c[1], q1, q2))
            IN IF Cardinality(ExistingRecords(c[1], c[2])) > 1
               THEN /\ call' = DailyCall(local)
                    /\ result' = [kind |-> "raise", error |-> "MultipleResultsFound"]
                    /\ UNCHANGED <<positions, prices, pnl_timeseries, risk_metrics, inflight, returns, portfolio_value>>
               ELSE /\ inflight' = [t \in DOMAIN inflight \cup {s} |->
                                       IF t = s THEN local ELSE inflight[t]]
                    /\ UNCHANGED <<positions, prices, pnl_timeseries, risk_metrics, returns, portfolio_value, call, result>>

\* The session runs the rest of the call: the branch and the commit.
CommitUpdate ==
    \E s \in DOMAIN inflight :
        LET done == commit_daily_pnl(inflight[s])
        IN /\ pnl_timeseries' = done.table
           /\ inflight' = [t \in DOMAIN inflight \ {s} |-> inflight[t]]
           /\ call' = DailyCall(inflight[s])
           /\ result' = [kind |-> done.kind]
           /\ UNCHANGED <<positions, prices, risk_metrics, returns, portfolio_value>>

InitDaily ==
    /\ positions = DailyPositions
    /\ prices = << >>
    /\ pnl_timeseries = << >>
    /\ risk_metrics = << >>
    /\ inflight = << >>
    /\ returns = << >>
    /\ portfolio_value = 0
    /\ call = NoCall
    /\ result = NoResult

NextDaily ==
    \/ PriceTick
    \/ UpdateDailyPnl

SpecDaily == InitDaily /\ [][NextDaily]_vars

NextRace ==
    \/ PriceTick
    \/ BeginUpdate
    \/ CommitUpdate

SpecRace == InitDaily /\ [][NextRace]_vars

(***************************************************************************)
(* SpecAccounts: two accounts over one store. A report request gathers     *)
(* the figures of one account and holds them (inflight) while positions    *)
(* are added and daily valuations written for either account; the price    *)
(* history is fixed from the start.                                        *)
(***************************************************************************)
\* The scheduler's calls under SpecAccounts: each account, day 1, at midnight.
AccountCalls == {<<"A", 1>>, <<"B", 1>>}

\* The price histories: none, one price of instrument 1, or two prices of
\* instrument 1 at the same timestamp.
AccountPriceTables ==
    PriceTables \cup
        {<<[instrument_id |-> 1, timestamp |-> 1, price |-> 0],
           [instrument_id |-> 1, timestamp |-> 1, price |-> 155]>>}

\* The rows of an account in the Position and PnlTimeSeries tables.
OwnPositions(a) == {p \in positions : p.account_id = a}

OwnRecords(a) == SelectSeq(pnl_timeseries, LAMBDA r : r.account_id = a)

\* Everything the read operations can return for an account in this state:
\* the outcomes of calculate_portfolio_pnl, the return series for each
\* lookback and clock, the two exposure breakdowns, and the outcomes of the
\* concentration analysis for each limit.
ResultsFor(a) ==
    [portfolio |-> {calculate_portfolio_pnl(a, q1, q2) :
                        q1 \in PriceQueries(a), q2 \in PriceQueries(a)},
     series |-> [lb \in SeriesLookbacks, now \in Nows |->
                     calculate_returns_series(a, lb, now)],
     asset_class |-> get_asset_class_exposure(a),
     currency |-> get_currency_exposure(a),
     concentration |-> [limit \in Limits |->
                            {get_position_concentration(a, limit, position_data, q) :
                                 position_data \in PositionData(a),
                                 q \in PriceOutcomes(PositionsOf(a))}]]

UpdateDailyPnlMidnight ==
    \E c \in AccountCalls :
        \E q1 \in PriceQueries(c[1]), q2 \in PriceQueries(c[1]) :
            LET done == update_daily_pnl(c[1], c[2], 0,
                                         calculate_portfolio_pnl(c[1], q1, q2))
            IN /\ call' = done.call
               /\ result' = done.result
               /\ pnl_timeseries' = done.table
               /\ UNCHANGED <<positions, prices, risk_metrics, inflight, returns, portfolio_value>>

\* A report request reads the figures of an account (_gather_risk_data) and
\* holds them, with the rows of the account they were read from.
GatherRiskData ==
    \E a \in Accounts :
        /\ inflight = << >>
        /\ inflight' = [s \in {1} |->
                           [account_id |-> a,
                            positions |-> OwnPositions(a),
                            records |-> OwnRecords(a),
                            gathered |-> ResultsFor(a)]]
        /\ UNCHANGED <<positions, prices, pnl_timeseries, risk_metrics, returns,
                       portfolio_value, call, result>>

\* The report request returns.
ReturnRiskData ==
    /\ inflight # << >>
    /\ call' = [name |-> "gather_risk_data", account_id |-> inflight[1].account_id]
    /\ result' = [kind |-> "ok"]
    /\ inflight' = << >>
    /\ UNCHANGED <<positions, prices, pnl_timeseries, risk_metrics, returns, portfolio_value>>

InitAccounts ==
    /\ positions = {}
    /\ prices \in AccountPriceTables
    /\ pnl_timeseries = << >>
    /\ risk_metrics = << >>
    /\ inflight = << >>
    /\ returns = << >>
    /\ portfolio_value = 0
    /\ call = NoCall
    /\ result = NoResult

NextAccounts ==
    \/ AddPosition
    \/ UpdateDailyPnlMidnight
    \/ GatherRiskData
    \/ ReturnRiskData

SpecAccounts == InitAccounts /\ [][NextAccounts]_vars

(***************************************************************************)
(* Valuation engine: properties, checked under Spec.                       *)
(***************************************************************************)
\* The prices of the rows of greatest timestamp of an instrument.
MaxTimestampPrices(instrument_id) ==
    {prices[i].price :
        i \in {k \in PriceRows(instrument_id) :
                 \A j \in PriceRows(instrument_id) :
                     prices[j].timestamp <= prices[k].timestamp}}

\* C1 (as stated): whatever price is passed to calculate_position_pnl, the
\* unrealized P&L is (current_price - average_cost) * quantity.
C1_ExplicitPriceDeterminesPnl ==
    (call.name = "calculate_position_pnl" /\ call.current_price.some) =>
        result.out.unrealized_pnl =
            (call.current_price.v - call.position.average_cost) * call.position.quantity

\* C2 (as stated): without a price argument the unrealized P&L is computed
\* from a price row of greatest timestamp of the instrument, and it is the
\* cost-basis fallback (zero P&L) only when the instrument has no price row.
C2_LatestPriceElseCostFallback ==
    (call.name = "calculate_position_pnl" /\ ~call.current_price.some) =>
        LET p == call.position
        IN IF PriceRows(p.instrument_id) = {}
           THEN result.out.unrealized_pnl = 0
           ELSE \E v \in MaxTimestampPrices(p.instrument_id) :
                    result.out.unrealized_pnl = (v - p.average_cost) * p.quantity

\* C3: the portfolio's unrealized P&L is the sum of the position P&Ls and its
\* value the sum of latest price * quantity over the positions of the account
\* whose instrument has a price; unpriced positions add 0 to both.
C3_PortfolioAggregates ==
    call.name = "calculate_portfolio_pnl" =>
        LET P == {p \in positions : p.account_id = call.account_id}
            priced == {p \in P : PriceRows(p.instrument_id) # {}}
            picks == {f \in [priced -> StoredPrices] :
                        \A p \in priced : f[p] \in MaxTimestampPrices(p.instrument_id)}
        IN /\ \E f \in picks :
                  result.out.portfolio_value =
                      SetSum(priced, [p \in priced |-> f[p] * p.quantity])
           /\ \E g \in picks :
                  result.out.unrealized_pnl =
                      SetSum(priced, [p \in priced |->
                          calculate_position_pnl(p, NoPrice, Some(g[p])).unrealized_pnl])

\* A portfolio valued while it holds a priced and an unpriced position.
C3_Witness ==
    /\ call.name = "calculate_portfolio_pnl"
    /\ \E p \in PositionsOf(call.account_id) :
           PriceRows(p.instrument_id) # {} /\ 0 \notin MaxTimestampPrices(p.instrument_id)
    /\ \E p \in PositionsOf(call.account_id) : PriceRows(p.instrument_id) = {}
    /\ result.out.portfolio_value # 0
    /\ result.out.unrealized_pnl # 0

\* C4: realized P&L is 0 in every position and portfolio result, so the
\* portfolio's total P&L equals its unrealized P&L.
C4_RealizedAlwaysZero ==
    /\ call.name = "calculate_position_pnl" => result.out.realized_pnl = 0
    /\ call.name = "calculate_portfolio_pnl" =>
           /\ result.out.realized_pnl = 0
           /\ result.out.total_pnl = result.out.unrealized_pnl

\* A portfolio result with a non-zero unrealized P&L.
C4_Witness ==
    /\ call.name = "calculate_portfolio_pnl"
    /\ Cardinality(PositionsOf(call.account_id)) = 2
    /\ result.out.unrealized_pnl # 0
    /\ result.out.total_pnl = result.out.unrealized_pnl

(***************************************************************************)
(* VaR engine: properties, checked under SpecVar.                          *)
(***************************************************************************)
KnownMethods == {"historical", "parametric", "ewma"}

\* The last operation ran one of the three estimators.
EstimatorCall ==
    \/ call.name \in {"calculate_historical_var", "calculate_parametric_var",
                      "calculate_ewma_var"}
    \/ call.name = "calculate_var" /\ call.method \in KnownMethods

\* The method name an estimator reports.
MethodName(method) == IF method = "historical" THEN "historical_simulation" ELSE method

\* The result is the insufficient-data record.
ShortCircuited(r) == r.kind = "ok" /\ "var_percent" \notin DOMAIN r.out

\* C5: with fewer than 30 returns every estimator returns var_value 0 and
\* data_points = the number of returns, without raising; with 30 or more the
\* short circuit is not taken and a result carries data_points >= 30.
C5_InsufficientDataFloor ==
    EstimatorCall =>
        IF Len(returns) < 30
        THEN /\ ShortCircuited(result)
             /\ result.out.var_value = Fin(0)
             /\ result.out.data_points = Len(returns)
        ELSE /\ ~ShortCircuited(result)
             /\ result.kind = "ok" =>
                    /\ result.out.data_points = Len(returns)
                    /\ result.out.data_points >= 30

\* An estimator short-circuits on 29 returns.
C5_Witness ==
    /\ call.name = "calculate_ewma_var"
    /\ Len(returns) = 29
    /\ ShortCircuited(result)
    /\ result.out.data_points = 29

\* C6 (as stated): every insufficient-data result carries the requested
\* alpha, the requested lookback and the method name.
C6_ShortCircuitEchoesParameters ==
    (EstimatorCall /\ ShortCircuited(result)) =>
        /\ result.out.confidence_level = call.alpha
        /\ result.out.method = MethodName(call.method)
        /\ "lookback_days" \in DOMAIN result.out
        /\ result.out.lookback_days = call.lookback_days

\* C7: calculate_var returns what the estimator named by the method returns
\* for the caller's alpha and lookback; any other method raises ValueError
\* before any estimator is called or any data is read.
C7_DispatchRoutes ==
    call.name = "calculate_var" =>
        /\ call.method = "historical" =>
               result = Via("calculate_historical_var",
                            calculate_historical_var(call.alpha, call.lookback_days))
        /\ call.method = "parametric" =>
               result = Via("calculate_parametric_var",
                            calculate_parametric_var(call.alpha, call.lookback_days))
        /\ call.method = "ewma" =>
               result = Via("calculate_ewma_var",
                            calculate_ewma_var(call.alpha, call.lookback_days))
        /\ call.method \notin KnownMethods =>
               /\ result.kind = "raise"
               /\ result.error = "ValueError"
               /\ result.calls = << >>

\* calculate_var routed to the EWMA estimator with a non-default alpha and
\* lookback, on a full sample.
C7_Witness ==
    /\ call.name = "calculate_var"
    /\ call.method = "ewma"
    /\ call.alpha = 95
    /\ call.lookback_days = 0
    /\ Len(returns) >= 30
    /\ result.kind = "ok"
    /\ result.out.method = "ewma"
    /\ result.out.confidence_level = 95
    /\ Head(result.calls) = "calculate_ewma_var"

\* C8 (as stated): calculate_var raises for a non-positive lookback and for
\* an alpha outside (0,1).
C8_InvalidArgumentsRejected ==
    (/\ call.name = "calculate_var"
     /\ \/ call.lookback_days <= 0
        \/ call.alpha <= 0
        \/ call.alpha >= 100) =>
        result.kind = "raise"

\* C9 (as stated): of two historical estimates of one sample, the one at the
\* higher confidence level is at least the one at the lower level.
C9_HistoricalVarMonotone ==
    (/\ call.name = "historical_var_pair"
     /\ result.lo.kind = "ok"
     /\ result.hi.kind = "ok"
     /\ Len(returns) >= 30) =>
        result.hi.out.var_value.v >= result.lo.out.var_value.v

\* The k-th smallest return, by counting.
OrderStatistic(k) ==
    CHOOSE x \in {returns[i] : i \in 1..Len(returns)} :
        /\ Cardinality({i \in 1..Len(returns) : returns[i] < x}) < k
        /\ k <= Cardinality({i \in 1..Len(returns) : returns[i] <= x})

\* The (1 - alpha) * 100-th percentile of the returns, linearly interpolated
\* between the two neighbouring order statistics, in 1/100 of a return unit.
InterpolatedPercentile(alpha) ==
    LET n == Len(returns)
        h == (100 - alpha) * (n - 1)
        k == (h \div 100) + 1
        g == h % 100
        up == IF k < n THEN k + 1 ELSE n
    IN (100 - g) * OrderStatistic(k) + g * OrderStatistic(up)

\* A full result of the historical estimator.
HistoricalResult ==
    /\ call.name = "calculate_historical_var"
    /\ result.kind = "ok"
    /\ ~ShortCircuited(result)

\* C10 (as stated): var_value = |var_percent| * portfolio_value.
C10_DollarIsAbsPercentTimesValue ==
    HistoricalResult =>
        result.out.var_value.v = Abs(result.out.var_percent.v) * portfolio_value

\* C10 (amended): var_percent is the signed, interpolated (1 - alpha) * 100-th
\* percentile and var_value = |var_percent * portfolio_value|, with
\* portfolio_value the current value of the portfolio.
C10_HistoricalVarFormula ==
    HistoricalResult =>
        /\ Len(returns) >= 30
        /\ result.out.var_percent = Fin(InterpolatedPercentile(call.alpha))
        /\ result.out.portfolio_value = portfolio_value
        /\ result.out.var_value =
               Fin(Abs(result.out.var_percent.v) * Abs(portfolio_value))

\* A loss-tail percentile that falls between two different returns, for a
\* portfolio of negative value.
C10_Witness ==
    /\ HistoricalResult
    /\ portfolio_value < 0
    /\ result.out.var_percent.v < 0
    /\ result.out.var_percent.v % 100 # 0
    /\ result.out.var_value.v > 0

(***************************************************************************)
(* VaR engine: the parametric estimator and the scaling of the estimates.  *)
(***************************************************************************)
\* A full result of the parametric estimator.
ParametricResult ==
    /\ call.name = "calculate_parametric_var"
    /\ result.kind = "ok"
    /\ ~ShortCircuited(result)

\* C11 (as stated): a parametric result computed from at least 30 returns
\* carries volatility (sample standard deviation, denominator n - 1),
\* mean_return and z_score, all finite, z_score negative for every alpha above
\* 0.5, var_percent = |z_score * volatility - mean_return| and
\* var_value = var_percent * portfolio_value.
C11_ParametricFields ==
    ParametricResult =>
        /\ Len(returns) >= 30
        /\ result.out.volatility = SampleStd(returns)
        /\ result.out.mean_return = Mean(returns)
        /\ ~result.out.z_score.nan
        /\ call.alpha > 50 => result.out.z_score.v < 0
        /\ ~result.out.var_percent.nan
        /\ result.out.var_percent =
               ZVarPercent(result.out.z_score, result.out.volatility,
                           result.out.mean_return)
        /\ result.out.var_value =
               FMul(result.out.var_percent, Fin(portfolio_value))

\* The two estimates of a scaling step are results of an estimator.
ScaledEstimates ==
    /\ call.name = "var_scaling"
    /\ result.before.kind = "ok"
    /\ result.after.kind = "ok"

\* C12: for a fixed sample, alpha and method, multiplying the portfolio value
\* by k >= 0 multiplies var_value by k and leaves var_percent (and whether the
\* result has one) unchanged, for the three estimators.
C12_VarScalesWithPortfolio ==
    ScaledEstimates =>
        /\ call.factor >= 0
        /\ ~ShortCircuited(result.before) =>
               /\ result.after.out.portfolio_value = portfolio_value
               /\ portfolio_value = call.factor * result.before.out.portfolio_value
        /\ result.after.out.var_value =
               FMul(Fin(call.factor), result.before.out.var_value)
        /\ ShortCircuited(result.after) = ShortCircuited(result.before)
        /\ ~ShortCircuited(result.before) =>
               result.after.out.var_percent = result.before.out.var_percent

\* A historical estimate of a non-empty loss doubles with the portfolio.
C12_Witness ==
    /\ ScaledEstimates
    /\ call.method = "historical"
    /\ call.factor = 2
    /\ ~ShortCircuited(result.before)
    /\ result.before.out.var_value.v > 0
    /\ result.after.out.var_value.v = 2 * result.before.out.var_value.v
    /\ result.after.out.var_percent.v < 0

(***************************************************************************)
(* Return-series builder: properties, checked under SpecSeries.            *)
(***************************************************************************)
SeriesCall == call.name = "calculate_returns_series"

\* The stored records of the call's account inside the call's window.
Window ==
    {pnl_timeseries[i] : i \in
        {j \in DOMAIN pnl_timeseries :
            /\ pnl_timeseries[j].account_id = call.account_id
            /\ pnl_timeseries[j].date >= call.now - (call.lookback_days + 1)
            /\ pnl_timeseries[j].date <= call.now}}

\* The steps between records of the window that are neighbours in date order.
Steps ==
    {s \in [prev : Window, cur : Window] :
        /\ s.prev.date < s.cur.date
        /\ \A r \in Window : ~(s.prev.date < r.date /\ r.date < s.cur.date)}

\* The steps that produce an entry: all but those from 0 to 0, whose 0/0 is
\* nan.
EntrySteps == {s \in Steps : ~(s.prev.portfolio_value = 0 /\ s.cur.portfolio_value = 0)}

\* The step behind the i-th entry of the result: entries are in date order
\* and end with the most recent step.
StepOf(i) ==
    CHOOSE s \in EntrySteps :
        Cardinality({t \in EntrySteps : t.cur.date > s.cur.date}) =
            Len(result.out) - i

\* C13: every entry of the return series is (v_i - v_{i-1}) / v_{i-1} between
\* two records that are neighbours in ascending date order, whatever order
\* they were stored in and however many days lie between them (the formula
\* is read where the previous valuation is not 0).
C13_ReturnsBetweenConsecutiveRecords ==
    SeriesCall =>
        /\ Len(result.out) <= Cardinality(EntrySteps)
        /\ \A i \in DOMAIN result.out :
               LET s == StepOf(i)
               IN s.prev.portfolio_value # 0 =>
                      result.out[i] * s.prev.portfolio_value =
                          (s.cur.portfolio_value - s.prev.portfolio_value) * PctScale

\* A later record stored before an earlier one, with a missing day between.
C13_Witness ==
    /\ SeriesCall
    /\ Len(result.out) = 1
    /\ result.out[1] = -300
    /\ \E i, j \in DOMAIN pnl_timeseries :
           /\ i < j
           /\ pnl_timeseries[i].account_id = call.account_id
           /\ pnl_timeseries[j].account_id = call.account_id
           /\ pnl_timeseries[i].date = 3
           /\ pnl_timeseries[j].date = 1
    /\ \A r \in Window : r.date # 2

\* C14 (as stated): a return whose previous valuation is 0 is dropped, not
\* replaced by 0: the series has at most one entry per step with a non-zero
\* previous valuation, and a 0 entry only for a step without change.
C14_NonFiniteDropped ==
    SeriesCall =>
        /\ Len(result.out) <=
               Cardinality({s \in Steps : s.prev.portfolio_value # 0})
        /\ \A i \in DOMAIN result.out :
               result.out[i] = 0 =>
                   \E s \in Steps : /\ s.prev.portfolio_value # 0
                                    /\ s.cur.portfolio_value = s.prev.portfolio_value

\* C14 (amended): a step from a valuation of 0 to a non-zero one is not
\* dropped: its infinite return is replaced by 0 and stays in the series.
\* Only a step from 0 to 0, whose return is nan, leaves no entry. (The series
\* is then cut to its most recent entries.)
C14_InfiniteReplacedByZero ==
    SeriesCall =>
        /\ Len(result.out) <= Cardinality(EntrySteps)
        /\ \/ Len(result.out) >= Cardinality(EntrySteps)
           \/ Len(result.out) >= call.lookback_days
        /\ \A i \in DOMAIN result.out :
               StepOf(i).prev.portfolio_value = 0 => result.out[i] = 0

\* A valuation of 0 followed by 200 and then -100: the series keeps an entry
\* 0 for the first step.
C14_Witness ==
    /\ SeriesCall
    /\ result.out = <<0, -150>>
    /\ StepOf(1).prev.portfolio_value = 0
    /\ StepOf(1).cur.portfolio_value = 200

\* C15 (as stated): the series is empty when fewer than 2 records fall in
\* the window, and has at most lookback_days entries for every
\* lookback_days >= 0.
C15_AtMostLookbackEntries ==
    SeriesCall =>
        /\ Cardinality(Window) < 2 => result.out = << >>
        /\ Len(result.out) <= call.lookback_days

(***************************************************************************)
(* Exposure and concentration analyzer: properties, checked under          *)
(* SpecExposure.                                                           *)
(***************************************************************************)
ConcentrationCall == call.name = "get_position_concentration"

Metrics == result.out.concentration_metrics

Zero == Rat(0, 1)

\* C16 (as stated): for any portfolio
\* 0 <= largest_position_pct <= top_5_positions_pct <= top_10_positions_pct <= 100.
C16_ConcentrationOrdered ==
    ConcentrationCall =>
        /\ RatLeq(Zero, Metrics.largest_position_pct)
        /\ RatLeq(Metrics.largest_position_pct, Metrics.top_5_positions_pct)
        /\ RatLeq(Metrics.top_5_positions_pct, Metrics.top_10_positions_pct)
        /\ RatLeq(Metrics.top_10_positions_pct, Rat(100, 1))

\* The market values of the positions of the call's account, as the call
\* computed them from the prices it read.
Held == PositionsOf(call.account_id)

MarketValues == [p \in Held |-> ConcentrationMarketValue(p, call.prices[p])]

TotalMarketValue == SetSum(Held, MarketValues)

SquaredMarketValues == SetSum(Held, [p \in Held |-> MarketValues[p] * MarketValues[p]])

C18_EmptyAccountAllMetricsZero ==
    (ConcentrationCall /\ Held = {}) =>
        /\ result.out.largest_positions = << >>
        /\ {"largest_position_pct", "top_5_positions_pct", "top_10_positions_pct",
            "herfindahl_index", "total_positions", "portfolio_value"}
               \subseteq DOMAIN Metrics
        /\ Metrics.largest_position_pct = Zero
        /\ Metrics.top_5_positions_pct = Zero
        /\ Metrics.top_10_positions_pct = Zero
        /\ Metrics.herfindahl_index = Zero
        /\ Metrics.total_positions = 0
        /\ Metrics.portfolio_value = 0

\* The market value the claim gives a position: latest price times quantity
\* when the instrument has a price, average cost times quantity otherwise.
StatedMarketValue(p) ==
    IF PriceRows(p.instrument_id) # {}
    THEN call.prices[p].v * p.quantity
    ELSE p.average_cost * p.quantity

StatedTotal == SetSum(Held, [p \in Held |-> StatedMarketValue(p)])

\* C19 (as stated): each returned position carries the stated market value
\* and the weight market_value / total * 100 (0 when the total is 0), and
\* largest_positions is the first min(limit, N) positions in descending order
\* of market value.
C19_LargestPositions ==
    ConcentrationCall =>
        LET top == result.out.largest_positions
            N == Cardinality(Held)
        IN /\ Len(top) = IF call.limit < N THEN call.limit ELSE N
           /\ \A i \in DOMAIN top :
                  \E p \in Held :
                      /\ top[i].symbol = Symbol(p.instrument_id)
                      /\ top[i].quantity = p.quantity
                      /\ top[i].market_value = StatedMarketValue(p)
                      /\ top[i].weight =
                             IF StatedTotal = 0 THEN Zero
                             ELSE Rat(StatedMarketValue(p) * 100, StatedTotal)
           /\ \A i, j \in DOMAIN top : i < j => top[i].market_value >= top[j].market_value
           /\ \A p \in Held :
                  (\A i \in DOMAIN top : top[i].symbol # Symbol(p.instrument_id)) =>
                      \A i \in DOMAIN top : StatedMarketValue(p) <= top[i].market_value

ExposureCall == call.name \in {"get_asset_class_exposure", "get_currency_exposure"}

TotalExposure == SetSum(result.out, [e \in result.out |-> e.exposure_value])

\* C20 (as stated): each group's exposure_percent is group exposure / total
\* exposure * 100 whenever the total is not 0, negative totals included, and
\* the percentages are all 0 only when the total is 0.
C20_PercentOfTotal ==
    (ExposureCall /\ result.out # {}) =>
        /\ TotalExposure # 0 =>
               \A e \in result.out :
                   e.exposure_percent = Rat(e.exposure_value * 100, TotalExposure)
        /\ (\A e \in result.out : e.exposure_percent = Zero) => TotalExposure = 0

\* The positions of the call's account that hold a quantity.
NonZeroHeld == {p \in Held : p.quantity # 0}

\* The column an exposure call groups by.
CallColumn == IF call.name = "get_asset_class_exposure" THEN "asset_class" ELSE "currency"

\* C21 (as stated): a position of quantity 0 is excluded: it is counted in no
\* group's num_positions, not counted in total_positions, and never listed
\* in largest_positions.
C21_ZeroQuantityExcluded ==
    /\ ExposureCall =>
           \A e \in result.out :
               e.num_positions =
                   Cardinality({p \in NonZeroHeld :
                                   Column(CallColumn, p.instrument_id) = e.group})
    /\ (ConcentrationCall /\ Held # {}) =>
           /\ Metrics.total_positions = Cardinality(NonZeroHeld)
           /\ \A i \in DOMAIN result.out.largest_positions :
                  result.out.largest_positions[i].quantity # 0

(***************************************************************************)
(* VaR change report: properties, checked under SpecChange.                *)
(***************************************************************************)
VarChangeResult == call.name = "get_var_change" /\ result.kind = "ok"

\* The snapshots of the call's account taken days_back days before the call.
StoredBefore ==
    {i \in DOMAIN risk_metrics :
        /\ risk_metrics[i].account_id = call.account_id
        /\ risk_metrics[i].as_of_date = call.now - call.days_back}

\* C27 (as stated): change_absolute = current_var - previous_var,
\* change_percent is that change as a percentage of previous_var and is 0
\* whenever change_absolute is 0, and previous_var is the value stored
\* days_back days earlier.
C27_VarChangeConsistent ==
    VarChangeResult =>
        /\ result.out.change_absolute =
               FSub(result.out.current_var, result.out.previous_var)
        /\ result.out.previous_var.v # 0 =>
               result.out.change_percent * result.out.previous_var.v =
                   100 * result.out.change_absolute.v
        /\ result.out.change_absolute.v = 0 => result.out.change_percent = 0
        /\ \A i \in StoredBefore :
               /\ risk_metrics[i].var_historical.some
               /\ result.out.previous_var =
                      FMul(risk_metrics[i].var_historical.v, Fin(ChangeScale))

(***************************************************************************)
(* VaR engine: sign of the estimates and the EWMA weights, under SpecVar.  *)
(***************************************************************************)
\* C25 (as stated): the var_value of every estimator's result is a number
\* that is not negative, for every sample and every portfolio value.
C25_VarValueNonNegative ==
    (EstimatorCall /\ result.kind = "ok") =>
        /\ ~result.out.var_value.nan
        /\ result.out.var_value.v >= 0

\* The last operation ran the EWMA estimator past the insufficient-data check.
EwmaResult ==
    /\ EstimatorCall
    /\ call.method = "ewma"
    /\ result.kind = "ok"
    /\ ~ShortCircuited(result)

\* C26: over n >= 30 returns the EWMA weights (numerators over their sum, oldest
\* observation first) are non-negative, have a positive sum so that the
\* normalised weights sum to 1, and do not decrease towards the most recent
\* observation; the most recent one has the weight of 1 - lambda_decay, and each
\* older one has lambda_decay times the weight of the next more recent one, to
\* the precision of the weights. The estimate is the one these weights give.
C26_EwmaWeights ==
    EwmaResult =>
        LET n == result.out.data_points
            w == EwmaWeights(n)
        IN /\ n >= 30
           /\ n = Len(returns)
           /\ Len(w) = n
           /\ \A i \in 1..n : w[i] >= 0
           /\ SeqSum(w) > 0
           /\ \A i \in 1..(n - 1) : w[i] <= w[i + 1]
           /\ 100 * w[n] = (100 - LambdaDecay) * WeightScale
           /\ \A i \in 1..(n - 1) :
                  /\ 100 * w[i] <= LambdaDecay * w[i + 1]
                  /\ LambdaDecay * w[i + 1] < 100 * w[i] + 100
           /\ result.out.weighted_mean = WeightedMean(returns, w)

\* An EWMA estimate over more than 30 returns that are not all equal, so that
\* the order of the weights shows in the weighted mean.
C26_Witness ==
    /\ EwmaResult
    /\ Len(returns) > 30
    /\ \E i \in DOMAIN returns : returns[i] # returns[1]
    /\ EwmaWeights(Len(returns))[1] < EwmaWeights(Len(returns))[Len(returns)]
    /\ result.out.weighted_mean # WeightedMean(returns, Reverse(EwmaWeights(Len(returns))))

(***************************************************************************)
(* Valuation engine: a price of exactly 0, checked under Spec.             *)
(***************************************************************************)
\* C28 (as stated): a price of exactly 0 is a price. Passed to
\* calculate_position_pnl it gives unrealized P&L -average_cost * quantity,
\* whatever is stored; stored as the only latest price of the instrument and
\* no price passed, it gives the same and not the cost-basis fallback.
C28_ZeroPriceIsAPrice ==
    call.name = "calculate_position_pnl" =>
        LET p == call.position
        IN /\ (call.current_price.some /\ call.current_price.v = 0) =>
                  result.out.unrealized_pnl = -(p.average_cost * p.quantity)
           /\ (~call.current_price.some /\ MaxTimestampPrices(p.instrument_id) = {0}) =>
                  result.out.unrealized_pnl = -(p.average_cost * p.quantity)

(***************************************************************************)
(* GET /risk/var: properties, checked under SpecVar.                       *)
(***************************************************************************)
\* C29 (as stated): for every method string and every length of the return
\* series the handler of GET /risk/var returns a VarResponse with var_value,
\* confidence_level, lookback_days, method and portfolio_value, an unknown
\* method being answered by the historical estimator, and does not raise.
C29_RouteAlwaysResponds ==
    call.name = "risk_var_route" =>
        /\ result.kind = "ok"
        /\ DOMAIN result.out = {"var_value", "confidence_level", "lookback_days",
                                "method", "portfolio_value"}
        /\ result.out.method =
               MethodName(IF call.method \in KnownMethods THEN call.method ELSE "historical")

(***************************************************************************)
(* The daily valuation write: properties, checked under SpecDaily and      *)
(* SpecRace.                                                               *)
(***************************************************************************)
\* No two rows of the table have the same account and calendar day.
OnePerAccountAndDay(table) ==
    \A i, j \in DOMAIN table :
        (table[i].account_id = table[j].account_id /\ table[i].date = table[j].date)
            => i = j

\* The row with the four figures replaced.
WithFigures(row, figures) ==
    [row EXCEPT !.unrealized_pnl = figures.unrealized_pnl,
                !.realized_pnl = figures.realized_pnl,
                !.total_pnl = figures.total_pnl,
                !.portfolio_value = figures.portfolio_value]

\* A step of update_daily_pnl called one call at a time: it does not raise, its
\* figures are those of calculate_portfolio_pnl on the positions and prices of
\* the moment, and it appends one record when the account has none for the
\* calendar day and otherwise overwrites the four figures of that record,
\* whatever its time of day, every other record staying as it was.
DailyUpsertStep ==
    call'.name = "update_daily_pnl" =>
        LET a == call'.account_id
            rows == ExistingRecords(a, call'.date)
            fresh == call'.pnl_data
        IN /\ result'.kind = "ok"
           /\ \E q1 \in PriceQueries(a), q2 \in PriceQueries(a) :
                  fresh = calculate_portfolio_pnl(a, q1, q2)
           /\ IF rows = {}
              THEN pnl_timeseries' =
                       Append(pnl_timeseries,
                              WithFigures([account_id |-> a, date |-> call'.date,
                                           time |-> call'.time,
                                           unrealized_pnl |-> 0, realized_pnl |-> 0,
                                           total_pnl |-> 0, portfolio_value |-> 0],
                                          fresh))
              ELSE /\ Len(pnl_timeseries') = Len(pnl_timeseries)
                   /\ \A i \in DOMAIN pnl_timeseries :
                          pnl_timeseries'[i] =
                              IF i \in rows THEN WithFigures(pnl_timeseries[i], fresh)
                              ELSE pnl_timeseries[i]

\* C24: after any sequence of update_daily_pnl calls made one at a time the
\* table holds at most one record per account and calendar day: the first call
\* of a day inserts, every later call of that account and day overwrites the
\* record's four figures with the freshly computed ones, and the records of
\* other accounts and days are untouched.
C24_OneRecordPerAccountAndDay ==
    [][DailyUpsertStep /\ OnePerAccountAndDay(pnl_timeseries')]_vars

\* A call has overwritten, at another time of day and with other figures, the
\* record of its account and day, in a table that holds other records too.
C24_Witness ==
    /\ call.name = "update_daily_pnl"
    /\ result.kind = "ok"
    /\ Len(pnl_timeseries) = 3
    /\ \E i \in ExistingRecords(call.account_id, call.date) :
           /\ pnl_timeseries[i].time # call.time
           /\ pnl_timeseries[i].portfolio_value = call.pnl_data.portfolio_value
           /\ pnl_timeseries[i].portfolio_value # 0
           /\ i < Len(pnl_timeseries)
    /\ \E j \in DOMAIN pnl_timeseries :
           /\ pnl_timeseries[j].account_id = call.account_id
           /\ pnl_timeseries[j].date # call.date
           /\ pnl_timeseries[j].portfolio_value = 0

\* C30 (as stated): when update_daily_pnl calls of one account and calendar day
\* are interleaved, each running its existence query before the other commits,
\* the table still holds one record for the account and day, no call fails, and
\* the record does not lose the figures of the call that committed last.
C30_InterleavedCallsKeepOneRecord ==
    /\ OnePerAccountAndDay(pnl_timeseries)
    /\ call.name = "update_daily_pnl" =>
           /\ result.kind = "ok"
           /\ \A i \in ExistingRecords(call.account_id, call.date) :
                  pnl_timeseries[i] = WithFigures(pnl_timeseries[i], call.pnl_data)

(***************************************************************************)
(* Frame of the read operations, checked under Spec.                       *)
(***************************************************************************)
ReadOperations ==
    {"calculate_position_pnl", "calculate_portfolio_pnl", "get_pnl_timeseries",
     "calculate_returns_series", "calculate_historical_var", "calculate_parametric_var",
     "calculate_ewma_var", "calculate_var", "get_var_change", "risk_var_route",
     "get_asset_class_exposure", "get_currency_exposure", "get_position_concentration"}

\* A step of a read operation writes to none of the four tables.
ReadStepWritesNothing ==
    call'.name \in ReadOperations =>
        UNCHANGED <<positions, prices, pnl_timeseries, risk_metrics>>

OwnRowsAsGathered(held) ==
    /\ OwnPositions(held.account_id) = held.positions
    /\ OwnRecords(held.account_id) = held.records

====
